---- MODULE Spec2Model ----
(***************************************************************************)
(* The abstract resolver of get_abstracts.py: main() loads the input CSV,  *)
(* merges a prior output CSV by Link, walks the rows, calls get_abstract   *)
(* for every row that is neither resolved nor without a link, and writes   *)
(* the whole table back at row positions that are multiples of 20 and in   *)
(* the finally clause.                                                     *)
(*                                                                         *)
(* Cells of a CSV file are strings.  In memory a cell is a string or the   *)
(* missing value (pandas NaN / Python None), written NaN here.             *)
(***************************************************************************)
EXTENDS Integers, Sequences, FiniteSets, TLC

VARIABLES
    inputFile,   \* INPUT_FILE on disk (never written by the program)
    artifact,    \* OUTPUT_FILE on disk
    net,         \* for each usable URL, the responses a GET may end with
    pc,          \* "start" | "loop" | "done": where main() stands
    runs,        \* how many times the operator starts the program
    run,         \* number of the current process invocation
    df,          \* the in-memory table of main()
    index,       \* 0-based position of the row the loop looks at next
    merged,      \* df as it stood when the loop was entered
    calls,       \* positions passed to get_abstract in this run, in order
    gets,        \* positions for which requests.get was issued, in order
    last,        \* the latest get_abstract call: position, response, result
    exit,        \* how the loop of this run was left
    failed       \* positions whose fetch in the previous run found nothing

vars == <<inputFile, artifact, net, runs, pc, run, df, index, merged, calls, gets,
          last, exit, failed>>

\* ------------------------------------------------------------------ bounds
MaxRows == 3
MaxRuns == 2
FetchRows == 2
LinkRows == 2
MergeRows == 2
StableRows == 3
StableRuns == 3
CadenceRows == 21

\* ------------------------------------------------------- program constants
CheckpointEvery == 20
MinUrlLen == 5
StatusOk == 200
StatusTooMany == 429
StatusNotFound == 404

\* --------------------------------------------------------------- cells
NaN == "NaN"
None == "None"

\* pandas.read_csv turns these cell texts into the missing value.
NaStrings == {"", "N/A", "NA"}

ReadCell(s) == IF s \in NaStrings THEN NaN ELSE s

WriteCell(v) == IF v = NaN \/ v = None THEN "" ELSE v

\* str.strip() / get_text(strip=True) on the texts used here.
Strip(s) ==
    CASE s = " "    -> ""
      [] s = " m "  -> "m"
      [] s = " p "  -> "p"
      [] OTHER      -> s

notna(v) == v # NaN /\ v # None

\* Python truthiness of a get_abstract result or of an attribute value.
Truthy(v) == v # None /\ v # NaN /\ v # ""

\* ---------------------------------------------------------------- links
UrlA == "http://h/A"
UrlB == "http://h/B"
UrlC == "http://h/C"
UrlPdf == "http://h/a.PDF"
UrlShort == "h/x"
Urls == {UrlA, UrlB, UrlC}
PdfLinks == {UrlPdf}

\* The guard of get_abstract: a string of at least 5 characters that does
\* not end with ".pdf" in any letter case.
Usable(url) == url # NaN /\ url # None /\ Len(url) >= MinUrlLen /\ url \notin PdfLinks

\* The link test of the run loop.
IsSentinel(link) == link = NaN \/ link = None \/ link = "N/A"

\* The abstract test of the run loop.
Resolved(abstract) == notna(abstract) /\ Strip(abstract) # ""

\* ---------------------------------------------------------------- files
NoFile == [exists |-> FALSE, readable |-> FALSE, hasLink |-> FALSE,
           hasAbstract |-> FALSE, rows |-> <<>>]

Table(hasAbs, rows) == [exists |-> TRUE, readable |-> TRUE, hasLink |-> TRUE,
                        hasAbstract |-> hasAbs, rows |-> rows]

Row(t, l, a) == [title |-> t, link |-> l, abstract |-> a]

\* pd.read_csv of a table; a table without Abstract column gets one of None.
ReadTable(f) ==
    [i \in DOMAIN f.rows |->
        Row(f.rows[i].title, ReadCell(f.rows[i].link),
            IF f.hasAbstract THEN ReadCell(f.rows[i].abstract) ELSE None)]

\* A save that writes only the rows that have an abstract.
HasAbstract(r) == Resolved(r.abstract)

ToCsvResolvedRows(d) ==
    Table(TRUE, [i \in DOMAIN SelectSeq(d, HasAbstract) |->
        Row(SelectSeq(d, HasAbstract)[i].title,
            WriteCell(SelectSeq(d, HasAbstract)[i].link),
            WriteCell(SelectSeq(d, HasAbstract)[i].abstract))])

\* df.to_csv(OUTPUT_FILE, index=False): the whole table, every row.
ToCsv(d) ==
    Table(TRUE, [i \in DOMAIN d |->
        Row(d[i].title, WriteCell(d[i].link), WriteCell(d[i].abstract))])

\* ---------------------------------------------------------------- pages
\* What BeautifulSoup finds in a fetched page.  An element is its raw text,
\* or Absent when the page has no such element.
Absent == "<absent>"

Page(parse, tag, content, header, p, d, n, c) ==
    [parse |-> parse, metaTag |-> tag, metaContent |-> content,
     header |-> header, sibP |-> p, sibDiv |-> d, nextEl |-> n, cls |-> c]

NoPage == Page("ok", FALSE, "", FALSE, Absent, Absent, Absent, Absent)
BrokenPage == Page("raises", FALSE, "", FALSE, Absent, Absent, Absent, Absent)

MetaContents == {"", " ", " m ", "NA"}

\* Every page shape: nextEl is the nearest following p/div that is not a
\* sibling of the heading, looked for only when the heading has no sibling
\* p and no sibling div.
AllPages ==
    {BrokenPage} \cup
    { Page("ok", m[1], m[2], h[1], h[2], h[3], h[4], c) :
        m \in ({<<FALSE, "">>} \cup {<<TRUE, x>> : x \in MetaContents}),
        h \in ({<<FALSE, Absent, Absent, Absent>>}
               \cup {<<TRUE, p, d, Absent>> :
                        p \in {Absent, "", " p "}, d \in {Absent, "", "d"}}
               \cup {<<TRUE, Absent, Absent, n>> : n \in {"", "n"}}),
        c \in {Absent, "", "c"} }

\* ------------------------------------------------------------ responses
Response(exc, code, page) == [exc |-> exc, code |-> code, page |-> page]

NoResponse == Response("no request", 0, NoPage)
RespTimeout == Response("Timeout", 0, NoPage)
RespConnError == Response("ConnectionError", 0, NoPage)
Resp429 == Response("none", StatusTooMany, NoPage)
Resp404 == Response("none", StatusNotFound, NoPage)
Resp200(page) == Response("none", StatusOk, page)
\* Ctrl-C while requests.get blocks: no response at all.
RespInterrupted == Response("KeyboardInterrupt", 0, NoPage)

\* ---------------------------------------------------------- get_abstract
Return(v) == [raised |-> "none", value |-> v]
Raise(e) == [raised |-> e, value |-> None]

\* Strategy 1: the meta tag citation_abstract with a truthy content.
MetaHit(page) == page.metaTag /\ Truthy(page.metaContent)

\* Strategy 2: a heading with 'Abstract' and a sibling p, a sibling div or
\* a following p/div.
HeaderHit(page) ==
    page.header /\ (page.sibP # Absent \/ page.sibDiv # Absent \/ page.nextEl # Absent)

HeaderText(page) ==
    IF page.sibP # Absent THEN Strip(page.sibP)
    ELSE IF page.sibDiv # Absent THEN Strip(page.sibDiv)
    ELSE Strip(page.nextEl)

\* Strategy 3: an element of class 'abstract'.
ClassHit(page) == page.cls # Absent

\* The strategies with the class lookup ahead of the heading lookup.
ExtractClassFirst(page) ==
    IF page.parse = "raises" THEN Raise("ParserError")
    ELSE IF MetaHit(page) THEN Return(Strip(page.metaContent))
    ELSE IF ClassHit(page) THEN Return(Strip(page.cls))
    ELSE IF HeaderHit(page) THEN Return(HeaderText(page))
    ELSE Return(None)

\* The strategies on the parsed page, in the order of the code.
Extract(page) ==
    IF page.parse = "raises" THEN Raise("ParserError")
    ELSE IF MetaHit(page) THEN Return(Strip(page.metaContent))
    ELSE IF HeaderHit(page) THEN Return(HeaderText(page))
    ELSE IF ClassHit(page) THEN Return(Strip(page.cls))
    ELSE Return(None)

\* The try block of get_abstract, given how the GET ended.
TryBody(resp) ==
    IF resp.exc # "none" THEN Raise(resp.exc)
    ELSE IF resp.code = StatusTooMany THEN Raise("RateLimitException")
    ELSE IF resp.code # StatusOk THEN Return(None)
    ELSE Extract(resp.page)

\* A get_abstract without its except clause.
ExceptClauseMissing(out) == out

\* `except Exception` of get_abstract: RateLimitException derives from
\* Exception, so every exception of the try block ends as None.  Only
\* KeyboardInterrupt, which is not an Exception, passes through.
ExceptClause(out) ==
    IF out.raised \notin {"none", "KeyboardInterrupt"} THEN Return(None) ELSE out

get_abstract(url, resp) ==
    IF ~Usable(url) THEN Return(None) ELSE ExceptClause(TryBody(resp))

\* The GET is issued only past the guard of get_abstract.
IssuesGet(url) == Usable(url)

\* ------------------------------------------------------------ the merge
\* existing_map: the rows of the prior output that have a Link and an
\* Abstract, as a dict keyed by Link; a later row replaces an earlier one
\* with the same Link.  NaN stands for "no entry".
ExistingMap(ck, link) ==
    LET rows == ReadTable(ck)
        hits == {j \in DOMAIN rows :
                    /\ notna(rows[j].link) /\ notna(rows[j].abstract)
                    /\ rows[j].link = link}
    IN  IF hits = {} THEN NaN
        ELSE rows[CHOOSE j \in hits : \A k \in hits : k <= j].abstract

\* A merge in which the input's abstract wins over the prior output's.
MergeInputFirst(d, ck) ==
    [i \in DOMAIN d |->
        LET got == ExistingMap(ck, d[i].link)
        IN  Row(d[i].title, d[i].link,
                IF notna(d[i].abstract) THEN d[i].abstract
                ELSE IF notna(got) THEN got ELSE NaN)]

\* A merge that leaves out the fillna.
MergeNoFillna(d, ck) ==
    [i \in DOMAIN d |-> Row(d[i].title, d[i].link, ExistingMap(ck, d[i].link))]

\* df['Link'].map(existing_map).fillna(df['Abstract'])
MergeAbstracts(d, ck) ==
    [i \in DOMAIN d |->
        LET got == ExistingMap(ck, d[i].link)
        IN  Row(d[i].title, d[i].link,
                IF notna(got) THEN got
                ELSE IF notna(d[i].abstract) THEN d[i].abstract ELSE NaN)]

\* The resume block: only a readable prior output with both columns merges.
Resume(d, ck) ==
    IF ck.exists /\ ck.readable /\ ck.hasAbstract /\ ck.hasLink
    THEN MergeAbstracts(d, ck)
    ELSE d

NoCall == [index |-> -1, resp |-> NoResponse, abstract |-> None]

\* ------------------------------------------------------------- actions
\* main() up to the loop: load the input, merge the prior output.
Startup ==
    /\ pc = "start"
    /\ IF ~inputFile.exists
       THEN /\ pc' = "done"
            /\ exit' = "no input"
            /\ UNCHANGED <<df, merged>>
       ELSE /\ df' = Resume(ReadTable(inputFile), artifact)
            /\ merged' = df'
            /\ pc' = "loop"
            /\ exit' = "none"
    /\ index' = 0
    /\ UNCHANGED <<inputFile, artifact, net, runs, run, calls, gets, last, failed>>

\* The row the loop looks at (Python counts from 0, sequences from 1).
Current == df[index + 1]

InLoop == pc = "loop" /\ index < Len(df)

\* A loop that forgets the link test.
SkipsResolvedOnly(row) == Resolved(row.abstract)

\* A loop that forgets the resume test.
SkipsLinkOnly(row) == IsSentinel(row.link)

Skips(row) == Resolved(row.abstract) \/ IsSentinel(row.link)

\* The two `continue` branches of the loop.
SkipRow ==
    /\ InLoop
    /\ Skips(Current)
    /\ index' = index + 1
    /\ UNCHANGED <<inputFile, artifact, net, runs, pc, run, df, merged, calls, gets,
                   last, exit, failed>>

\* How a GET for this link may end: with one of the answers of the
\* network, or with the operator's Ctrl-C while it blocks.
ResponsesFor(link) ==
    IF IssuesGet(link) THEN net[link] \cup {RespInterrupted} ELSE {NoResponse}

\* A loop that writes whatever the fetch gave, found or not.
StoreAlways(d, i, abstract) ==
    [d EXCEPT ![i + 1] = Row(d[i + 1].title, d[i + 1].link, abstract)]

\* df.at[index, 'Abstract'] = abstract, when abstract is truthy.
Store(d, i, abstract) ==
    IF Truthy(abstract)
    THEN [d EXCEPT ![i + 1] = Row(d[i + 1].title, d[i + 1].link, abstract)]
    ELSE d

\* A loop that stays on a row until its fetch finds something.
AdvanceOnSuccess(i, abstract) == IF Truthy(abstract) THEN i + 1 ELSE i

\* The for loop moves to the next row whatever the fetch gave.
Advance(i, abstract) == i + 1

\* The periodic save looks at the position of the row, not at a count.
SaveDue(i) == (i + 1) % CheckpointEvery = 0

\* One iteration that reaches get_abstract.
FetchRow ==
    /\ InLoop
    /\ ~Skips(Current)
    /\ \E resp \in ResponsesFor(Current.link) :
         LET out == get_abstract(Current.link, resp) IN
         /\ calls' = Append(calls, index)
         /\ gets' = IF IssuesGet(Current.link) THEN Append(gets, index) ELSE gets
         /\ last' = [index |-> index, resp |-> resp, abstract |-> out.value]
         /\ IF out.raised # "none"
            THEN \* an exception out of get_abstract: except, then finally
                 /\ artifact' = ToCsv(df)
                 /\ pc' = "done"
                 /\ exit' = out.raised
                 /\ UNCHANGED <<df, index>>
            ELSE /\ df' = Store(df, index, out.value)
                 /\ artifact' = IF SaveDue(index) THEN ToCsv(df') ELSE artifact
                 /\ index' = Advance(index, out.value)
                 /\ UNCHANGED <<pc, exit>>
    /\ UNCHANGED <<inputFile, net, runs, run, merged, failed>>

\* An abort whose finally clause does not save.
AbortRunNoSave ==
    /\ pc = "loop"
    /\ \E e \in {"KeyboardInterrupt", "Exception"} : exit' = e
    /\ pc' = "done"
    /\ UNCHANGED <<inputFile, artifact, net, runs, run, df, index, merged, calls,
                   gets, last, failed>>

\* KeyboardInterrupt or another exception between two rows, in the delay
\* after a row or at the for statement after the last row (the try block
\* ends only when the iterator is empty): the except clause prints, the
\* finally clause saves.
AbortRun ==
    /\ pc = "loop"
    /\ \E e \in {"KeyboardInterrupt", "Exception"} : exit' = e
    /\ artifact' = ToCsv(df)
    /\ pc' = "done"
    /\ UNCHANGED <<inputFile, net, runs, run, df, index, merged, calls, gets, last,
                   failed>>

\* The loop runs out of rows: the finally clause saves.
Finish ==
    /\ pc = "loop"
    /\ index = Len(df)
    /\ artifact' = ToCsv(df)
    /\ pc' = "done"
    /\ exit' = "normal"
    /\ UNCHANGED <<inputFile, net, runs, run, df, index, merged, calls, gets, last,
                   failed>>

\* The operator starts the program again on the same input.
Restart ==
    /\ pc = "done"
    /\ run < runs
    /\ run' = run + 1
    /\ pc' = "start"
    /\ df' = <<>>
    /\ merged' = <<>>
    /\ index' = 0
    /\ calls' = <<>>
    /\ gets' = <<>>
    /\ last' = NoCall
    /\ exit' = "none"
    /\ failed' = {i \in {calls[k] : k \in DOMAIN calls} : ~Resolved(df[i + 1].abstract)}
    /\ UNCHANGED <<inputFile, artifact, net, runs>>

Next == Startup \/ SkipRow \/ FetchRow \/ AbortRun \/ Finish \/ Restart

\* ---------------------------------------------------------- initial states
Fresh ==
    /\ pc = "start"
    /\ run = 1
    /\ df = <<>>
    /\ merged = <<>>
    /\ index = 0
    /\ calls = <<>>
    /\ gets = <<>>
    /\ last = NoCall
    /\ exit = "none"
    /\ failed = {}

\* A table whose rows carry their position as title.
Numbered(cells) == [i \in DOMAIN cells |-> Row(i, cells[i][1], cells[i][2])]

Tuples(n, S) == [1..n -> S]

MainPages ==
    { Page("ok", TRUE, " m ", FALSE, Absent, Absent, Absent, "c") }

MainResponses == {Resp404} \cup {Resp200(p) : p \in MainPages}

MainCells ==
    { <<UrlA, "">>, <<UrlB, " ">>, <<UrlC, "">>, <<UrlA, "old">>, <<"N/A", "">> }

\* A file without Abstract column has no abstract cells.
BareCells == { <<UrlA, "">>, <<"N/A", "">> }

Inputs(n, cells, bare) ==
    { Table(TRUE, Numbered(c)) : c \in Tuples(n, cells) }
    \cup { Table(FALSE, Numbered(c)) : c \in Tuples(n, bare) }

\* First start of the program on an input, with no output file yet; any
\* GET may end in any of the main responses.
Init ==
    /\ Fresh
    /\ runs = MaxRuns
    /\ inputFile \in {NoFile} \cup Inputs(MaxRows, MainCells, BareCells)
    /\ artifact = NoFile
    /\ net = [u \in Urls |-> MainResponses]

Spec == Init /\ [][Next]_vars

\* ------------------------------------------------ the fetch of one page
AllResponses ==
    {RespTimeout, RespConnError, Resp429, Resp404} \cup {Resp200(p) : p \in AllPages}

FetchCells == { <<UrlA, "">>, <<UrlB, " ">>, <<"N/A", "">> }

\* What the other URLs answer: the abstract in a meta tag, or 429.
OtherResponses ==
    {Resp429, Resp200(Page("ok", TRUE, " m ", FALSE, Absent, Absent, Absent, "c"))}

\* UrlA answers every request with one response, any of all responses and
\* pages; the other URLs answer each request with a page or with 429.
InitFetch ==
    /\ Fresh
    /\ runs = MaxRuns
    /\ inputFile \in Inputs(FetchRows, FetchCells, {})
    /\ artifact = NoFile
    /\ \E r \in AllResponses :
          net = [u \in Urls |-> IF u = UrlA THEN {r} ELSE OtherResponses]

SpecFetch == InitFetch /\ [][Next]_vars

\* ------------------------------------------------------ kinds of links
FoundPage == Page("ok", TRUE, " m ", FALSE, Absent, Absent, Absent, "c")

PlainResponses == {Resp404, Resp200(FoundPage)}

LinkCells ==
    { <<l, a>> : l \in {"", "N/A", UrlPdf, UrlShort, UrlA}, a \in {"", "old"} }

\* Inputs with every kind of link, with and without an abstract.
InitLinks ==
    /\ Fresh
    /\ runs = MaxRuns
    /\ inputFile \in Inputs(LinkRows, LinkCells, {c \in LinkCells : c[2] = ""})
    /\ artifact = NoFile
    /\ net = [u \in Urls |-> PlainResponses]

SpecLinks == InitLinks /\ [][Next]_vars

\* ------------------------------------------------- prior output files
Unreadable == [exists |-> TRUE, readable |-> FALSE, hasLink |-> FALSE,
               hasAbstract |-> FALSE, rows |-> <<>>]

MergeCells == { <<UrlA, "">>, <<UrlA, "old">>, <<UrlB, "">>, <<"N/A", "old">> }

PriorCells ==
    { <<UrlA, "x">>, <<UrlA, "y">>, <<UrlA, "">>, <<UrlB, " ">>, <<"", "x">>,
      <<UrlC, "x">> }

\* Prior outputs: none, unreadable, lacking a column, or a table of one row
\* or of MergeRows rows, written by an earlier run on another input.
PriorFiles ==
    {NoFile, Unreadable}
    \cup { [Table(TRUE, Numbered(c)) EXCEPT !.hasLink = h, !.hasAbstract = ~h] :
              h \in BOOLEAN, c \in Tuples(1, PriorCells) }
    \cup { Table(TRUE, Numbered(c)) :
              c \in Tuples(1, PriorCells) \cup Tuples(MergeRows, PriorCells) }

InitMerge ==
    /\ Fresh
    /\ runs = MaxRuns
    /\ inputFile \in Inputs(MergeRows, MergeCells, {})
                     \cup { Table(FALSE, Numbered(c)) : c \in Tuples(1, {<<UrlA, "">>}) }
    /\ artifact \in PriorFiles
    /\ net = [u \in Urls |-> PlainResponses]

SpecMerge == InitMerge /\ [][Next]_vars

\* ------------------------------------------- a network that does not change
NaPage == Page("ok", TRUE, "NA", FALSE, Absent, Absent, Absent, Absent)

StableResponses == {Resp404, Resp200(FoundPage), Resp200(NaPage)}

StableCells ==
    { <<UrlA, "">>, <<UrlB, " ">>, <<UrlA, "old">>, <<"N/A", "old">> }

\* Every URL answers each request the same way, in every run.
InitStable ==
    /\ Fresh
    /\ runs = StableRuns
    /\ inputFile \in Inputs(StableRows, StableCells, {<<UrlA, "">>, <<UrlB, "">>})
    /\ artifact = NoFile
    /\ \E a \in StableResponses : \E b \in StableResponses :
          net = [u \in Urls |-> IF u = UrlA THEN {a} ELSE {b}]

SpecStable == InitStable /\ [][Next]_vars

\* ---------------------------------------------------- a long input table
\* CadenceRows records of UrlA, one of them at most replaced by a record
\* the loop skips; UrlA answers each request the same way.
CadenceInputs ==
    { Table(TRUE, Numbered([i \in 1..CadenceRows |->
                               IF i = k THEN c ELSE <<UrlA, "">>])) :
        k \in 0..CadenceRows, c \in { <<"N/A", "">>, <<UrlA, "old">> } }

InitCadence ==
    /\ Fresh
    /\ runs = MaxRuns
    /\ inputFile \in CadenceInputs
    /\ artifact = NoFile
    /\ \E r \in PlainResponses : net = [u \in Urls |-> {r}]

SpecCadence == InitCadence /\ [][Next]_vars

\* ------------------------------------- a long input table, one link a row
PaperUrl(i) == "http://h/" \o ToString(i)

PaperUrls == {PaperUrl(i) : i \in 1..CadenceRows}

\* A record with a link of its own; the odd ones have no link, an abstract,
\* or an abstract of whitespace.
Paper(i, kind) ==
    CASE kind = "plain"  -> Row(i, PaperUrl(i), "")
      [] kind = "nolink" -> Row(i, "N/A", "")
      [] kind = "old"    -> Row(i, PaperUrl(i), "old")
      [] kind = "blank"  -> Row(i, PaperUrl(i), " ")

\* CadenceRows records, one of them at most an odd one: the first, the one
\* at which the loop saves, or the last.
SnapshotInputs ==
    { Table(TRUE, [i \in 1..CadenceRows |->
                     Paper(i, IF i = k THEN kind ELSE "plain")]) :
        k \in {0, 1, CheckpointEvery, CadenceRows},
        kind \in {"nolink", "old", "blank"} }

\* Every link answers each request the same way.
InitSnapshot ==
    /\ Fresh
    /\ runs = MaxRuns
    /\ inputFile \in SnapshotInputs
    /\ artifact = NoFile
    /\ \E r \in PlainResponses : net = [u \in PaperUrls |-> {r}]

SpecSnapshot == InitSnapshot /\ [][Next]_vars

\* =================================================================== claims
Positions(log) == {log[k] : k \in DOMAIN log}

\* A cell that holds any text at all, blank or not.
NonEmpty(v) == notna(v) /\ v # ""

\* Rows a run has to attempt: unresolved after the merge, with a link.
Pending(d) == {i \in 0..(Len(d) - 1) : ~Skips(d[i + 1])}

\* C1: once the response for a record has status 429 the loop stops at that
\* record: no later record is passed to get_abstract in this run, and when
\* the process has stopped the output file holds the corpus.
C1_RateLimitAbort ==
    /\ [][(pc = "loop" /\ last.resp.code = StatusTooMany) => calls' = calls]_vars
    /\ []((pc = "done" /\ last.resp.code = StatusTooMany) => artifact = ToCsv(df))

\* C2: once the input is loaded, every way of leaving the loop ends with a
\* whole-table write: the stopped process has left the in-memory table,
\* with every abstract found in this run, in the output file, and an abort
\* has passed no row to get_abstract after the row it came at.
C2_GuaranteedPersistence ==
    (pc = "done" /\ exit # "no input") =>
        /\ artifact = ToCsv(df)
        /\ \A i \in DOMAIN df :
              Resolved(df[i].abstract) => artifact.rows[i].abstract = df[i].abstract
        /\ exit # "normal" => \A k \in DOMAIN calls : calls[k] <= index

C2_Witness ==
    /\ pc = "done"
    /\ exit = "KeyboardInterrupt"
    /\ index < Len(df)
    /\ \E i \in DOMAIN df :
          /\ ~Resolved(merged[i].abstract)
          /\ Resolved(df[i].abstract)
          /\ artifact.rows[i].abstract = df[i].abstract

\* C3 as stated: get_abstract is never called for a record whose abstract
\* is non-empty after the merge.
C3_NonEmptyNeverFetched ==
    \A k \in DOMAIN calls : ~NonEmpty(merged[calls[k] + 1].abstract)

\* C3 amended: get_abstract is never called for a record whose abstract
\* after the merge is present and not blank; a run that completes has
\* called it exactly once for each record that is unresolved after the merge
\* and has a link, in row order, and for nothing else.
C3_Resume ==
    /\ \A k \in DOMAIN calls : ~Resolved(merged[calls[k] + 1].abstract)
    /\ \A k \in DOMAIN calls : \A j \in DOMAIN calls : k < j => calls[k] < calls[j]
    /\ (pc = "done" /\ exit = "normal") => Positions(calls) = Pending(merged)

\* Links A, B, C; the prior output resolved A and B; this run attempts only C.
C3_Witness ==
    /\ pc = "done" /\ exit = "normal" /\ run = 2
    /\ Len(merged) = 3
    /\ merged[1].link = UrlA /\ merged[2].link = UrlB /\ merged[3].link = UrlC
    /\ \A i \in 1..3 : ~Resolved(ReadTable(inputFile)[i].abstract)
    /\ Resolved(merged[1].abstract) /\ Resolved(merged[2].abstract)
    /\ ~Resolved(merged[3].abstract)
    /\ calls = <<2>>

\* What the loop can see of a get_abstract call that raised.
RaisedKinds == {"Timeout", "ConnectionError", "RateLimitException", "ParserError"}

Called == last.index >= 0 /\ pc \in {"loop", "done"}

Got200 == Called /\ last.resp.exc = "none" /\ last.resp.code = StatusOk

\* C7 as stated: on a 200 response the result is the text of the first of
\* (1) the meta tag, (2) the heading with a following p/div, (3) the class
\* element that the page has, also when that text is empty; not-found only
\* when the page has none of them; get_abstract never raises.  (An empty
\* text and not-found are taken as the same answer here.)
C7_FirstPresentWins ==
    /\ (Got200 /\ last.resp.page.parse = "ok") =>
          LET page == last.resp.page
              first == IF page.metaTag THEN Strip(page.metaContent)
                       ELSE IF HeaderHit(page) THEN HeaderText(page)
                       ELSE IF ClassHit(page) THEN Strip(page.cls)
                       ELSE None
          IN  IF Truthy(first) THEN last.abstract = first ELSE ~Truthy(last.abstract)
    /\ exit \notin RaisedKinds

\* C7 amended: the meta tag counts only with a non-empty content attribute
\* (an empty or missing content passes the turn to the lower heuristics);
\* with that, the first heuristic that matches gives the result, stripped,
\* also when it is empty text and a lower heuristic has text; not-found
\* only when none matches or the page cannot be parsed; never raises.
C7_Priority ==
    /\ Got200 =>
          LET page == last.resp.page
              res == last.abstract
              ok == page.parse = "ok"
              m == page.metaTag /\ page.metaContent # ""
              h == page.header
          IN  /\ (ok /\ m) => res = Strip(page.metaContent)
              /\ (ok /\ ~m /\ h /\ page.sibP # Absent) => res = Strip(page.sibP)
              /\ (ok /\ ~m /\ h /\ page.sibP = Absent /\ page.sibDiv # Absent)
                    => res = Strip(page.sibDiv)
              /\ (ok /\ ~m /\ h /\ page.sibP = Absent /\ page.sibDiv = Absent
                     /\ page.nextEl # Absent) => res = Strip(page.nextEl)
              /\ (ok /\ ~m /\ ~HeaderHit(page) /\ page.cls # Absent)
                    => res = Strip(page.cls)
              /\ res = None <=> (~ok \/ (~m /\ ~HeaderHit(page) /\ page.cls = Absent))
    /\ exit \notin RaisedKinds

\* The heading's sibling p is empty, the class element has text: the result
\* is the empty text of the higher heuristic.
C7_Witness ==
    /\ Got200
    /\ ~last.resp.page.metaTag
    /\ last.resp.page.header /\ last.resp.page.sibP = ""
    /\ last.resp.page.cls = "c"
    /\ last.abstract = ""

\* A fetch that ended without a usable page: an exception of requests, a
\* status that is neither 200 nor 429, or a page the parser fails on.
SoftFailure(resp) ==
    \/ resp.exc \in {"Timeout", "ConnectionError"}
    \/ resp.exc = "none" /\ resp.code \notin {StatusOk, StatusTooMany}
    \/ resp.exc = "none" /\ resp.code = StatusOk /\ resp.page.parse = "raises"

\* C8: after a fetch that failed softly the record's abstract is as it was,
\* unresolved; no exception has reached the loop; the loop has moved on to
\* the next record and the run is not aborted by it.
C8_SoftFailure ==
    (Called /\ SoftFailure(last.resp)) =>
        /\ last.abstract = None
        /\ df[last.index + 1] = merged[last.index + 1]
        /\ ~Resolved(df[last.index + 1].abstract)
        /\ index > last.index
        /\ exit \notin RaisedKinds

\* Two records of UrlA; the fetch of the first timed out, the loop went on
\* and has fetched the second.
C8_Witness ==
    /\ pc = "loop"
    /\ calls = <<0, 1>>
    /\ df[1].link = UrlA /\ df[2].link = UrlA
    /\ last.resp = RespTimeout
    /\ ~Resolved(df[1].abstract)

Count(log, i) == Cardinality({k \in DOMAIN log : log[k] = i})

\* Positions called in this run whose record is still unresolved.
Unfound == {i \in Positions(calls) : ~Resolved(df[i + 1].abstract)}

\* C10 as stated: at most one GET per record and run; a record whose fetch
\* failed is stored with an empty abstract; the next run attempts it again.
C10_RetryNextRun ==
    /\ \A i \in Positions(gets) : Count(gets, i) <= 1
    /\ (pc = "done" /\ exit # "no input") =>
          \A i \in Unfound : artifact.rows[i + 1].abstract = ""
    /\ (pc = "done" /\ exit = "normal" /\ run > 1) => failed \subseteq Positions(calls)

\* C10 amended: at most one call and one GET per record and run; a failed
\* fetch writes nothing, so the record keeps the unresolved abstract it had
\* (missing or blank) in memory and in the output file; the next run, when
\* it completes, has attempted the record again unless the merge resolved
\* it from another record with the same link.
C10_Retry ==
    /\ \A i \in Positions(gets) : Count(gets, i) <= 1
    /\ \A i \in Positions(calls) : Count(calls, i) <= 1
    /\ pc \in {"loop", "done"} => \A i \in Unfound : df[i + 1] = merged[i + 1]
    /\ (pc = "done" /\ exit # "no input") =>
          \A i \in Unfound : Strip(artifact.rows[i + 1].abstract) = ""
    /\ (pc = "done" /\ exit = "normal" /\ run > 1) =>
          \A i \in failed :
             \/ i \in Positions(calls)
             \/ /\ Resolved(merged[i + 1].abstract)
                /\ \E j \in DOMAIN merged :
                      j # i + 1 /\ merged[j].link = merged[i + 1].link

\* A record whose fetch failed in the first run has been fetched again by
\* the second run.
C10_Witness ==
    /\ pc = "done" /\ exit = "normal" /\ run = 2
    /\ \E i \in failed : i \in Positions(gets) /\ Count(gets, i) = 1

\* C4: a record whose link cell is empty or "N/A" is never passed to
\* get_abstract, no GET is issued for it, and the run leaves its abstract
\* as it was, so still unresolved if it was; no GET is issued for a link
\* shorter than 5 characters or ending in ".pdf".
C4_Sentinel ==
    pc \in {"loop", "done"} =>
        /\ \A i \in 0..(Len(df) - 1) :
              inputFile.rows[i + 1].link \in {"", "N/A"} =>
                 /\ i \notin Positions(calls)
                 /\ i \notin Positions(gets)
                 /\ df[i + 1].abstract = merged[i + 1].abstract
                 /\ ~Resolved(ReadTable(inputFile)[i + 1].abstract)
                       => ~Resolved(df[i + 1].abstract)
        /\ \A i \in Positions(gets) :
              /\ Len(inputFile.rows[i + 1].link) >= MinUrlLen
              /\ inputFile.rows[i + 1].link \notin PdfLinks

\* A finished run over an "N/A" record without abstract and a ".pdf"
\* record: the first was not called, the second was called without a GET.
C4_Witness ==
    /\ pc = "done" /\ exit = "normal"
    /\ inputFile.rows[1].link = "N/A" /\ inputFile.rows[1].abstract = ""
    /\ inputFile.rows[2].link = UrlPdf /\ inputFile.rows[2].abstract = ""
    /\ ~Resolved(df[1].abstract)
    /\ calls = <<1>>
    /\ gets = <<>>

\* The prior output as the resume block reads it, when it merges at all.
Prior == IF artifact.exists /\ artifact.readable /\ artifact.hasAbstract
            /\ artifact.hasLink
         THEN ReadTable(artifact) ELSE <<>>

\* The rows of the prior output with this link and with an abstract.
Matches(link) ==
    {j \in DOMAIN Prior :
        notna(link) /\ Prior[j].link = link /\ notna(Prior[j].abstract)}

LastOf(S) == CHOOSE j \in S : \A k \in S : k <= j

JustStarted == pc = "loop" /\ index = 0 /\ calls = <<>>

\* C9: right after startup every record whose link is that of a prior
\* output row with an abstract carries the abstract of such a row (of the
\* last one, when several rows share the link), whatever abstract the
\* input had; every other record has the abstract of the input; titles,
\* links, number and order of the records are those of the input.
C9_Merge ==
    JustStarted =>
        LET in == ReadTable(inputFile) IN
        /\ Len(df) = Len(in)
        /\ \A i \in DOMAIN df :
              /\ df[i].title = in[i].title
              /\ df[i].link = in[i].link
              /\ Matches(df[i].link) # {} =>
                    df[i].abstract = Prior[LastOf(Matches(df[i].link))].abstract
              /\ Matches(df[i].link) = {} =>
                    IF notna(in[i].abstract) THEN df[i].abstract = in[i].abstract
                    ELSE ~notna(df[i].abstract)

\* The input has abstract "old" for UrlA, the prior output has "x" for
\* UrlA and a row of another link: the record carries "x".
C9_Witness ==
    /\ JustStarted /\ run = 1
    /\ Len(df) = 2 /\ Len(Prior) = 2
    /\ inputFile.rows[1] = Row(1, UrlA, "old")
    /\ inputFile.rows[2] = Row(2, UrlB, "")
    /\ Prior[1].link = UrlC /\ Prior[2] = Row(2, UrlA, "x")
    /\ df[1].abstract = "x"
    /\ ~notna(df[2].abstract)

\* C5: right after the 20th, 40th, ... record that a run has passed to
\* get_abstract (skipped records not counted) the output file holds the
\* in-memory table.
C5_EveryNProcessed ==
    ( /\ pc = "loop"
      /\ Len(calls) > 0
      /\ Len(calls) % CheckpointEvery = 0
      /\ last.index = index - 1 )
    => artifact = ToCsv(df)

\* The answer of the unchanging network for a link.
Answer(link) == IF IssuesGet(link) THEN CHOOSE r \in net[link] : TRUE ELSE NoResponse

\* The table one uninterrupted run over the input leaves, with no prior
\* output: every record the loop does not skip gets what its fetch finds.
OneRun ==
    LET in == ReadTable(inputFile) IN
    [i \in DOMAIN in |->
        LET found == get_abstract(in[i].link, Answer(in[i].link)).value IN
        IF ~Skips(in[i]) /\ Truthy(found)
        THEN Row(in[i].title, in[i].link, found)
        ELSE in[i]]

\* No two records of the input have the same link (records without a link
\* aside).
UniqueLinks ==
    LET in == ReadTable(inputFile) IN
    \A i \in DOMAIN in : \A j \in DOMAIN in :
        (i # j /\ notna(in[i].link)) => in[i].link # in[j].link

\* C6 as stated: whatever runs were cut short before, a run that completes
\* leaves the output file one uninterrupted run leaves.
C6_Convergence ==
    (pc = "done" /\ exit = "normal") => artifact = ToCsv(OneRun)

\* C6 amended: the same, for inputs in which no two records share a link.
C6_ConvergenceUnique ==
    (UniqueLinks /\ pc = "done" /\ exit = "normal") => artifact = ToCsv(OneRun)

\* A third run completes on links that differ: it took one abstract from
\* the prior output and found another itself, which the earlier runs, cut
\* short, had not reached.
C6_Witness ==
    /\ pc = "done" /\ exit = "normal" /\ run = 3
    /\ UniqueLinks
    /\ \E i \in DOMAIN df :
          /\ ~Resolved(ReadTable(inputFile)[i].abstract)
          /\ Resolved(merged[i].abstract)
    /\ \E j \in DOMAIN df : ~Resolved(merged[j].abstract) /\ Resolved(df[j].abstract)
    /\ artifact = ToCsv(OneRun)

\* ------------------------------------------------------------------ C11
\* A step of the run loop: from the loop to the loop or to its exit.
LoopStep == pc = "loop" /\ pc' \in {"loop", "done"}

\* The rows whose abstract this step changes.
Changed == {i \in DOMAIN df : i \in DOMAIN df' /\ df'[i].abstract # df[i].abstract}

\* This step is the iteration that calls get_abstract for row i.
Fetches(i) == index = i - 1 /\ calls' = Append(calls, index) /\ last'.index = index

\* The loop leaves title, link, number and order of the rows alone, and
\* never goes back to a row.
Frame ==
    /\ Len(df') = Len(df)
    /\ \A i \in DOMAIN df : df'[i].title = df[i].title /\ df'[i].link = df[i].link
    /\ index' >= index
    /\ \A i \in Changed : index' = i

\* A fetch that found nothing (None or empty text) changes no row.
NotFoundWritesNothing ==
    (calls' # calls /\ ~Truthy(last'.abstract)) => df' = df

\* C11 as stated: in every step of the run loop an abstract changes only
\* in the iteration that fetches its row, only to the non-empty text that
\* fetch found, and only if it was not a non-empty string before (so a
\* non-empty abstract is never changed or cleared); a not-found result
\* writes nothing, and title, link, number and order of rows stay.
C11_MonotoneLiteral ==
    [][LoopStep =>
         /\ Frame
         /\ NotFoundWritesNothing
         /\ \A i \in Changed :
              /\ Fetches(i)
              /\ ~NonEmpty(df[i].abstract)
              /\ NonEmpty(df'[i].abstract)
              /\ df'[i].abstract = last'.abstract]_vars

\* C11, amended: the same, where the abstract that changes is one the loop
\* counts as unresolved: missing, empty or only whitespace.  An abstract
\* with a character other than whitespace is never changed or cleared.
C11_Monotone ==
    [][LoopStep =>
         /\ Frame
         /\ NotFoundWritesNothing
         /\ \A i \in Changed :
              /\ Fetches(i)
              /\ ~Resolved(df[i].abstract)
              /\ Resolved(df'[i].abstract)
              /\ df'[i].abstract = last'.abstract]_vars

\* A fetch has replaced the whitespace-only abstract of a row by the text
\* it found, another fetch of the run found nothing, and a row that was
\* resolved after the merge is still in the table.
C11_Witness ==
    /\ pc = "loop"
    /\ \E i \in DOMAIN df :
         /\ merged[i].abstract = " "
         /\ Resolved(df[i].abstract)
         /\ last.index = i - 1
         /\ df[i].abstract = last.abstract
    /\ \E j \in DOMAIN df :
         /\ (j - 1) \in Positions(calls)
         /\ ~Resolved(df[j].abstract)
    /\ Len(df) = Len(merged)

\* ------------------------------------------------------------------ C12
\* The run is past the merge.
AfterMerge == pc \in {"loop", "done"} /\ exit # "no input"

\* The output file holds the whole in-memory table: every row, in order,
\* every cell as to_csv writes it.
WholeCorpus ==
    /\ artifact.exists /\ artifact.readable
    /\ artifact.hasLink /\ artifact.hasAbstract
    /\ Len(artifact.rows) = Len(df)
    /\ \A i \in DOMAIN df :
          /\ artifact.rows[i].title = df[i].title
          /\ artifact.rows[i].link = WriteCell(df[i].link)
          /\ artifact.rows[i].abstract = WriteCell(df[i].abstract)

\* Every step that changes the output file leaves it holding the whole
\* in-memory table.
WritesWhole == [][artifact' # artifact => WholeCorpus']_vars

\* C12 as stated: with unique links, at every point after the merge, an
\* abstract the output file holds for a record's link, if it is a non-empty
\* string, is the abstract the in-memory table holds for that record; and
\* every write replaces the file with the whole in-memory table.
C12_SnapshotLiteral ==
    /\ [](( AfterMerge /\ UniqueLinks ) =>
            LET held == Prior IN
            \A j \in DOMAIN held :
                NonEmpty(held[j].abstract) =>
                    \A i \in DOMAIN df :
                        ( notna(df[i].link) /\ held[j].link = df[i].link )
                        => df[i].abstract = held[j].abstract)
    /\ WritesWhole

\* C12, amended: the same for an abstract of the output file that has a
\* character other than whitespace; an abstract of only whitespace may have
\* been replaced in memory since the file was written.
C12_Snapshot ==
    /\ [](( AfterMerge /\ UniqueLinks ) =>
            LET held == Prior IN
            \A j \in DOMAIN held :
                Resolved(held[j].abstract) =>
                    \A i \in DOMAIN df :
                        ( notna(df[i].link) /\ held[j].link = df[i].link )
                        => df[i].abstract = held[j].abstract)
    /\ WritesWhole

\* A first run saved at row CheckpointEvery and then found the abstract of
\* a later row: the file holds the abstracts up to the save, the table
\* holds one more.
C12_Witness ==
    /\ pc = "loop" /\ run = 1 /\ UniqueLinks
    /\ artifact.exists
    /\ Len(artifact.rows) = Len(df)
    /\ Resolved(artifact.rows[CheckpointEvery].abstract)
    /\ artifact.rows[CheckpointEvery].abstract = df[CheckpointEvery].abstract
    /\ index > CheckpointEvery
    /\ Resolved(df[index].abstract)
    /\ artifact.rows[index].abstract = ""

====
